---- MODULE Spec2Model ----
(***************************************************************************)
(* Model of src/main.py (music downloader): main() reads a work list,      *)
(* fans process_item out over a ThreadPoolExecutor, collects the results,  *)
(* writes the manifest done-urllist.txt and appends the sentinel 'done'.   *)
(*                                                                         *)
(* Text is modelled as a sequence of tokens.  A token is one character     *)
(* (" ", "a", ".", "\n", ...) or an atomic word that the code never looks  *)
(* inside ("192000", "mp3", a URL prefix).                                 *)
(***************************************************************************)
EXTENDS Integers, Sequences, FiniteSets, TLC

VARIABLES
    listFile,   \* the list file: its text, or Missing when it does not exist
    manifest,   \* done-urllist.txt: its text
    outdir,     \* ./music: the set of the paths of its files
    now,        \* the wall clock, in units of its resolution
    env,        \* what the external tools may answer (fixed along a behaviour)
    run,        \* how many times main has been started
    pc,         \* main's position
    exitcode,   \* main's return value (NoExit while running or after a raise)
    lines,      \* main: lines
    last_non_empty, \* main: last_non_empty (<<>> stands for None)
    items,      \* main: items
    threads,    \* main: threads (0 before it is computed)
    cpu_count,  \* what os.cpu_count() answered (0 stands for None)
    arg_threads,\* args.threads
    task,       \* one record per submitted future
    collected,  \* the futures as_completed has yielded
    results,    \* main: results
    marked,     \* how this run's marking of the list ended (history)
    prev,       \* what the previous run did (history)
    written,    \* the files main has written in this run, in order (history)
    fn          \* the input and output of a pure function under test

mainvars == <<listFile, manifest, outdir, now, env, run, pc, exitcode, lines,
              last_non_empty, items, threads, cpu_count, arg_threads, task,
              collected, results, marked, prev, written>>
vars == <<listFile, manifest, outdir, now, env, run, pc, exitcode, lines,
          last_non_empty, items, threads, cpu_count, arg_threads, task,
          collected, results, marked, prev, written, fn>>

-----------------------------------------------------------------------------
(* Bounds of the model *)
MaxLines == 2
MaxRuns == 2
MaxClock == 2
MaxCount == 100
MaxCpu == 9
MaxRequest == 3
MaxParseLines == 3
MaxNameLen == 3

Missing == <<"<no such file>">>
NoExit == 0 - 1
NL == "\n"

-----------------------------------------------------------------------------
(* str methods the code uses *)

Whitespace == {" ", "\t", NL}

LowerChar(c) ==
    CASE c = "D" -> "d" [] c = "O" -> "o" [] c = "N" -> "n" [] c = "E" -> "e"
      [] c = "MP3" -> "mp3" [] c = "Mp3" -> "mp3"
      [] OTHER -> c

lower(s) == [i \in 1..Len(s) |-> LowerChar(s[i])]

RECURSIVE lstrip(_)
lstrip(s) ==
    IF s # <<>> /\ Head(s) \in Whitespace THEN lstrip(Tail(s)) ELSE s

RECURSIVE rstrip(_)
rstrip(s) ==
    IF s # <<>> /\ s[Len(s)] \in Whitespace
    THEN rstrip(SubSeq(s, 1, Len(s) - 1)) ELSE s

strip(s) == rstrip(lstrip(s))

RECURSIVE rstrip_dot(_)
rstrip_dot(s) ==
    IF s # <<>> /\ s[Len(s)] = "."
    THEN rstrip_dot(SubSeq(s, 1, Len(s) - 1)) ELSE s

endswith(s, suffix) ==
    /\ Len(s) >= Len(suffix)
    /\ SubSeq(s, Len(s) - Len(suffix) + 1, Len(s)) = suffix

\* str.splitlines(): a trailing line break opens no further line
RECURSIVE splitlines_from(_, _)
splitlines_from(s, cur) ==
    IF s = <<>> THEN (IF cur = <<>> THEN <<>> ELSE <<cur>>)
    ELSE IF Head(s) = NL THEN <<cur>> \o splitlines_from(Tail(s), <<>>)
    ELSE splitlines_from(Tail(s), Append(cur, Head(s)))

splitlines(s) == splitlines_from(s, <<>>)

\* "\n".join(ls)
RECURSIVE join(_)
join(ls) ==
    IF ls = <<>> THEN <<>>
    ELSE IF Len(ls) = 1 THEN ls[1]
    ELSE ls[1] \o <<NL>> \o join(Tail(ls))

\* the index of the first whitespace of s, or 0
RECURSIVE first_ws(_, _)
first_ws(s, i) ==
    IF i > Len(s) THEN 0
    ELSE IF s[i] \in Whitespace THEN i ELSE first_ws(s, i + 1)

\* line.split(None, 1)
split1(line) ==
    LET l == lstrip(line)
        i == first_ws(l, 1)
    IN  IF l = <<>> THEN <<>>
        ELSE IF i = 0 THEN <<l>>
        ELSE LET rest == lstrip(SubSeq(l, i, Len(l)))
             IN  IF rest = <<>> THEN <<SubSeq(l, 1, i - 1)>>
                 ELSE <<SubSeq(l, 1, i - 1), rest>>

-----------------------------------------------------------------------------
(* Constants and file helpers of main.py *)

URLLIST_NAME == "done-urllist.txt"
LIST_NAME == "music_download.txt"
OUTDIR == "music"
DONE == <<"d", "o", "n", "e">>
FORBIDDEN == {"\\", "/", ":", "*", "?", "\"", "<", ">", "|"}
UNTITLED == <<"untitled">>
MP3EXT == <<".", "mp3">>
CDN_PREFIX == <<"https://cdn.jsdelivr.net/gh/kenny1108Xiang/RustGame@main/music/">>

read_lines_utf8bom(text) == splitlines(text)

write_lines_utf8bom(ls) == join(ls)

\* a variant that forgets the line break before the appended line
append_line_no_break(text, line) == text \o line

append_line_utf8bom(text, line) ==
    text \o (IF Len(text) > 0 THEN <<NL>> ELSE <<>>) \o line

\* a variant without the fallback name
sanitize_name_no_fallback(name) ==
    LET s1 == [i \in 1..Len(name) |->
                  IF name[i] \in FORBIDDEN THEN "_" ELSE name[i]]
    IN  rstrip_dot(strip(s1))

sanitize_name(name) ==
    LET s1 == [i \in 1..Len(name) |->
                  IF name[i] \in FORBIDDEN THEN "_" ELSE name[i]]
        s2 == rstrip_dot(strip(s1))
    IN  IF s2 = <<>> THEN UNTITLED ELSE s2

-----------------------------------------------------------------------------
(* Audio inspector: ffprobe_codec and ffprobe_bitrate.  A tool answer is    *)
(* [code, out]: the exit code and the text of stdout.                       *)

\* int(s): the value of a decimal literal, ValueError otherwise
ValueError == 0 - 1
int(s) ==
    LET t == strip(s)
    IN  IF Len(t) # 1 THEN ValueError
        ELSE CASE t[1] = "0" -> 0
               [] t[1] = "180000" -> 180000
               [] t[1] = "191999" -> 191999
               [] t[1] = "192000" -> 192000
               [] t[1] = "192500" -> 192500
               [] t[1] = "192501" -> 192501
               [] OTHER -> ValueError

ffprobe_codec(ans) ==
    IF ans.code = 0 THEN strip(ans.out) ELSE <<>>

\* [raised |-> TRUE] is the IndexError of splitlines()[0] on an empty list
ffprobe_bitrate(ans) ==
    IF ans.code = 0
    THEN IF ans.out # <<>> /\ splitlines(strip(ans.out)) = <<>>
         THEN [raised |-> TRUE, value |-> 0]
         ELSE LET s == IF ans.out # <<>>
                       THEN splitlines(strip(ans.out))[1] ELSE <<"0">>
              IN  [raised |-> FALSE,
                   value |-> IF int(s) = ValueError THEN 0 ELSE int(s)]
    ELSE [raised |-> FALSE, value |-> 0]

\* line 156: the pass-through test
passthrough(src, codec, bps) ==
    /\ endswith(lower(src), MP3EXT)
    /\ lower(codec) = <<"mp3">>
    /\ 192000 <= bps /\ bps <= 192500

-----------------------------------------------------------------------------
(* main: the parser and the pool size *)

Min(a, b) == IF a <= b THEN a ELSE b

\* a variant that takes only a negative request as "automatic"
thread_count_negative_only(n, cpus, requested) ==
    LET cpu == IF cpus = 0 THEN 4 ELSE cpus
        auto_threads == Min(n, Min(cpu * 3, 24))
    IN  IF requested < 0 THEN auto_threads ELSE requested

\* lines 231-233
thread_count(n, cpus, requested) ==
    LET cpu == IF cpus = 0 THEN 4 ELSE cpus
        auto_threads == Min(n, Min(cpu * 3, 24))
    IN  IF requested <= 0 THEN auto_threads ELSE requested

\* line 206; <<>> stands for None
RECURSIVE last_non_empty_of(_)
last_non_empty_of(ls) ==
    IF ls = <<>> THEN <<>>
    ELSE IF strip(ls[Len(ls)]) # <<>> THEN ls[Len(ls)]
    ELSE last_non_empty_of(SubSeq(ls, 1, Len(ls) - 1))

\* a variant that compares the sentinel case-sensitively
is_done_case_sensitive(last) == last # <<>> /\ strip(last) = DONE

\* lines 207 and 255
is_done(last) == last # <<>> /\ lower(strip(last)) = DONE

\* a variant that skips a sentinel line and goes on
RECURSIVE parse_items_skip_sentinel(_)
parse_items_skip_sentinel(ls) ==
    IF ls = <<>> THEN <<>>
    ELSE LET line == Head(ls)
             parts == split1(line)
         IN  IF strip(line) = <<>> THEN parse_items_skip_sentinel(Tail(ls))
             ELSE IF lower(strip(line)) = DONE
             THEN parse_items_skip_sentinel(Tail(ls))
             ELSE IF Len(parts) < 2 THEN parse_items_skip_sentinel(Tail(ls))
             ELSE <<[url |-> parts[1], filename |-> parts[2]]>>
                  \o parse_items_skip_sentinel(Tail(ls))

\* a variant that stops at a malformed line
RECURSIVE parse_items_stop_at_malformed(_)
parse_items_stop_at_malformed(ls) ==
    IF ls = <<>> THEN <<>>
    ELSE LET line == Head(ls)
             parts == split1(line)
         IN  IF strip(line) = <<>> THEN parse_items_stop_at_malformed(Tail(ls))
             ELSE IF lower(strip(line)) = DONE THEN <<>>
             ELSE IF Len(parts) < 2 THEN <<>>
             ELSE <<[url |-> parts[1], filename |-> parts[2]]>>
                  \o parse_items_stop_at_malformed(Tail(ls))

\* lines 212-224
RECURSIVE parse_items(_)
parse_items(ls) ==
    IF ls = <<>> THEN <<>>
    ELSE LET line == Head(ls)
             parts == split1(line)
         IN  IF strip(line) = <<>> THEN parse_items(Tail(ls))
             ELSE IF lower(strip(line)) = DONE THEN <<>>
             ELSE IF Len(parts) < 2 THEN parse_items(Tail(ls))
             ELSE <<[url |-> parts[1], filename |-> parts[2]]>>
                  \o parse_items(Tail(ls))

\* line 250
manifest_line(r) ==
    <<"boombox.serverurllist \"">> \o r.file \o <<",">> \o r.cdn \o <<"\"">>

RECURSIVE out_lines(_)
out_lines(rs) ==
    IF rs = <<>> THEN <<>>
    ELSE (IF Head(rs).success THEN <<manifest_line(Head(rs))>> ELSE <<>>)
         \o out_lines(Tail(rs))

-----------------------------------------------------------------------------
(* The environment: the list files, the output directories and the tool     *)
(* answers the model draws from.                                            *)

LinePool ==
    { <<>>,                          \* a blank line
      <<" ", "D", "o", "n", "e">>,   \* the sentinel, to be trimmed and lowered
      <<"u", " ", "a", ".">>,        \* <URL> <name>; the name sanitizes to a
      <<"v", " ", "b">>,
      <<"x">> }                      \* no separator: malformed

ListsUpTo(n) == UNION {[1..k -> LinePool] : k \in 0..n}

InitTexts == {join(ls) : ls \in ListsUpTo(MaxLines)}

\* the manifest an earlier run left
StaleManifest == <<"boombox.serverurllist \"old,url\"">>

\* lines 149 and 153: os.path.join(outdir, f"{safe_name}.mp3")
dest_path(name) == <<OUTDIR, "/">> \o name \o MP3EXT

InitOutdirs == {{}, {dest_path(<<"a">>)}}

ThreadArgs == {0, 1}

Answer(c, o) == [code |-> c, out |-> o]
Fetched(c, e) == [code |-> c, ext |-> e]
Probe(c, b) == [codec |-> c, bitrate |-> b]

\* ffmpeg -y: the exit code, and whether it created the output file
FfmpegAnswers ==
    {[code |-> 0, wrote |-> TRUE], [code |-> 1, wrote |-> FALSE],
     [code |-> 1, wrote |-> TRUE]}

\* A run of the whole program, with one answer per outcome of process_item.
\* yt-dlp: a non-zero exit; exit 0 and no file (ext <<>>); exit 0 and a file.
\* ffprobe: a 192 kbit/s mp3; another codec with no bit rate; a bit rate
\* answer that is a blank line.
RunEnv ==
    [ tools   |-> {TRUE},
      mkdtemp |-> BOOLEAN,
      cpus    |-> {1},
      fetch   |-> {Fetched(1, <<>>), Fetched(0, <<>>), Fetched(0, <<"mp3">>)},
      probes  |-> {Probe(Answer(0, <<"mp3", NL>>), Answer(0, <<"192000", NL>>)),
                   Probe(Answer(0, <<"aac", NL>>), Answer(0, <<"N/A", NL>>)),
                   Probe(Answer(0, <<"mp3", NL>>), Answer(0, <<NL>>))},
      ffmpeg  |-> FfmpegAnswers,
      append  |-> {"ok"} ]

\* a machine on which a required tool is not installed
NoToolsEnv == [RunEnv EXCEPT !.tools = {FALSE}]

\* a run whose fetches all fail, with every outcome of marking the list: the
\* append works, the append raises and the rewrite works, both raise
MarkEnv ==
    [ tools   |-> {TRUE},
      mkdtemp |-> {TRUE},
      cpus    |-> {1},
      fetch   |-> {Fetched(1, <<>>)},
      probes  |-> {Probe(Answer(1, <<>>), Answer(1, <<>>))},
      ffmpeg  |-> {[code |-> 1, wrote |-> FALSE]},
      append  |-> {"ok", "rewrite", "fail"} ]

-----------------------------------------------------------------------------
(* process_item: one future of the pool *)

NoResult == [success |-> FALSE, file |-> <<>>, cdn |-> <<>>, dest |-> <<>>,
             message |-> <<>>]

\* a variant whose failed result still names an output path
Failure_keeps_dest(name, msg) ==
    [success |-> FALSE, file |-> name, cdn |-> <<>>, dest |-> dest_path(name),
     message |-> msg]

\* lines 133, 142, 172, 177
Failure(name, msg) ==
    [success |-> FALSE, file |-> name, cdn |-> <<>>, dest |-> <<>>,
     message |-> msg]

\* a variant that reports the name as it was before line 152 changed it
Success_first_name(f) ==
    [success |-> TRUE, file |-> f.naive,
     cdn |-> CDN_PREFIX \o f.naive \o MP3EXT,
     dest |-> f.dest_base,
     message |-> <<"OK">>]

\* lines 174-175
Success(f) ==
    [success |-> TRUE, file |-> f.safe_name,
     cdn |-> CDN_PREFIX \o f.safe_name \o MP3EXT,
     dest |-> f.dest_base,
     message |-> <<"OK">>]

\* a variant that leaves the name as it is
stamped_unchanged(name, ts) == name

\* line 152: f"{safe_name}-{ts}"
stamped(name, ts) == name \o <<"-", ToString(ts)>>

\* a submitted future that no worker has taken yet
NewFuture(item) ==
    [ pc |-> "queued",
      raw_name |-> item.filename,
      safe_name |-> <<>>,
      naive |-> <<>>,       \* safe_name as line 124 set it (history)
      tmpdir |-> FALSE,     \* the temporary directory exists
      src |-> <<>>,
      codec |-> <<>>,
      bps |-> 0,
      dest_base |-> <<>>,
      existed |-> FALSE,    \* line 150 found the first destination taken
      dest_taken |-> FALSE, \* a file was at dest_base when it was written (history)
      moved |-> FALSE,      \* shutil.move was called
      ffmpeg_calls |-> 0,
      ffmpeg_code |-> 0,
      wrote |-> FALSE,      \* a file was put at dest_base (history)
      result |-> NoResult ]

Running(t) == task[t].pc \in {"deliver", "return", "except"}
Finished(t) == task[t].pc \in {"done", "raised"}
PoolAlive == pc \in {"collect", "unwind"}

\* a variant of the pool that starts a thread for every future
WorkerFree_unbounded == TRUE

\* line 238: max_workers=threads; a worker is idle
WorkerFree == Cardinality({u \in DOMAIN task : Running(u)}) < threads

\* a variant whose cleanup is on the success path only, not in a finally clause
Returned_cleanup_on_success(f, res) ==
    [f EXCEPT !.pc = "done", !.result = res, !.tmpdir = ~ res.success,
              !.src = <<>>, !.codec = <<>>, !.bps = 0,
              !.dest_taken = FALSE, !.moved = FALSE, !.ffmpeg_calls = 0,
              !.ffmpeg_code = 0]

\* the return statement and the finally clause: lines 178-183
\* (the locals of the call end with it; the history fields stay)
Returned(f, res) ==
    [f EXCEPT !.pc = "done", !.result = res, !.tmpdir = FALSE,
              !.src = <<>>, !.codec = <<>>, !.bps = 0,
              !.dest_taken = FALSE, !.moved = FALSE, !.ffmpeg_calls = 0,
              !.ffmpeg_code = 0]

\* lines 123-153: a free worker takes the oldest queued future and runs
\* process_item up to the choice of the destination.  mkdtemp is called before
\* the try statement: what it raises leaves process_item.
Start(t) ==
    /\ PoolAlive
    /\ task[t].pc = "queued"
    /\ \A u \in 1..(t - 1) : task[u].pc # "queued"
    /\ WorkerFree
    /\ \E ok \in env.mkdtemp, f \in env.fetch, p \in env.probes,
          ts \in now..MaxClock :
          LET name == sanitize_name(task[t].raw_name)
              me == [task[t] EXCEPT !.safe_name = name, !.naive = name,
                                    !.tmpdir = TRUE]
              src == <<"yt_", "/", "uuid", ".">> \o f.ext
              codec == ffprobe_codec(p.codec)
              br == ffprobe_bitrate(p.bitrate)
              taken == dest_path(name) \in outdir
              final == IF taken THEN stamped(name, ts) ELSE name
          IN  IF ~ ok
              THEN /\ task' = [task EXCEPT ![t] =
                         [@ EXCEPT !.pc = "raised", !.safe_name = name,
                                   !.naive = name]]
                   /\ now' = now
              ELSE IF f.code # 0
              THEN /\ task' = [task EXCEPT ![t] =
                         Returned(me, Failure(name, <<"yt-dlp failed">>))]
                   /\ now' = now
              ELSE IF f.ext = <<>>
              THEN /\ task' = [task EXCEPT ![t] =
                         Returned(me, Failure(name, <<"no temp file">>))]
                   /\ now' = now
              ELSE IF br.raised
              THEN /\ task' = [task EXCEPT ![t] =
                         [me EXCEPT !.pc = "except", !.src = src,
                                    !.codec = codec]]
                   /\ now' = now
              ELSE /\ task' = [task EXCEPT ![t] =
                         [me EXCEPT !.pc = "deliver", !.src = src,
                                    !.codec = codec, !.bps = br.value,
                                    !.existed = taken, !.safe_name = final,
                                    !.dest_base = dest_path(final)]]
                   /\ now' = IF taken THEN ts ELSE now
    /\ UNCHANGED <<listFile, manifest, outdir, env, run, pc, exitcode, lines,
                   last_non_empty, items, threads, cpu_count, arg_threads,
                   collected, results, marked, prev, written, fn>>

\* lines 156-170: move the file, or transcode it and drop the source
Deliver(t) ==
    /\ PoolAlive
    /\ task[t].pc = "deliver"
    /\ LET me == task[t]
       IN  IF passthrough(me.src, me.codec, me.bps)
           THEN /\ task' = [task EXCEPT ![t] =
                      [me EXCEPT !.pc = "return", !.moved = TRUE,
                                 !.wrote = TRUE,
                                 !.dest_taken = me.dest_base \in outdir]]
                /\ outdir' = outdir \cup {me.dest_base}
           ELSE \E a \in env.ffmpeg :
                /\ task' = [task EXCEPT ![t] =
                      [me EXCEPT !.pc = "return",
                                 !.ffmpeg_calls = me.ffmpeg_calls + 1,
                                 !.ffmpeg_code = a.code, !.wrote = a.wrote,
                                 !.dest_taken = a.wrote /\ me.dest_base \in outdir]]
                /\ outdir' = IF a.wrote THEN outdir \cup {me.dest_base}
                             ELSE outdir
    /\ UNCHANGED <<listFile, manifest, now, env, run, pc, exitcode, lines,
                   last_non_empty, items, threads, cpu_count, arg_threads,
                   collected, results, marked, prev, written, fn>>

\* lines 171-183: the result (of the transcode, of the except clause, or
\* success), then the finally clause
Return(t) ==
    /\ PoolAlive
    /\ task[t].pc \in {"return", "except"}
    /\ LET me == task[t]
       IN  task' = [task EXCEPT ![t] =
              IF me.pc = "except"
              THEN Returned(me, Failure(me.safe_name, <<"exception">>))
              ELSE IF me.ffmpeg_code # 0
              THEN Returned(me, Failure(me.safe_name, <<"ffmpeg failed">>))
              ELSE Returned(me, Success(me))]
    /\ UNCHANGED <<listFile, manifest, outdir, now, env, run, pc, exitcode,
                   lines, last_non_empty, items, threads, cpu_count,
                   arg_threads, collected, results, marked, prev, written, fn>>

-----------------------------------------------------------------------------
(* main *)

Exit(code) == pc' = "exited" /\ exitcode' = code

\* lines 187-200
CheckList ==
    /\ pc = "start"
    /\ \E a \in ThreadArgs : arg_threads' = a
    /\ IF listFile = Missing THEN Exit(1)
       ELSE pc' = "tools" /\ exitcode' = exitcode
    /\ UNCHANGED <<listFile, manifest, outdir, now, env, run, lines,
                   last_non_empty, items, threads, cpu_count, task, collected,
                   results, marked, prev, written, fn>>

\* a variant that goes on when a tool is missing
EnsureTools_ignores_missing ==
    /\ pc = "tools"
    /\ pc' = "read"
    /\ UNCHANGED <<listFile, manifest, outdir, now, env, run, exitcode, lines,
                   last_non_empty, items, threads, cpu_count, arg_threads, task,
                   collected, results, marked, prev, written, fn>>

\* line 202: ensure_tools returns, or raises RuntimeError out of main
EnsureTools ==
    /\ pc = "tools"
    /\ \E found \in env.tools : pc' = IF found THEN "read" ELSE "raised"
    /\ UNCHANGED <<listFile, manifest, outdir, now, env, run, exitcode, lines,
                   last_non_empty, items, threads, cpu_count, arg_threads, task,
                   collected, results, marked, prev, written, fn>>

\* lines 204-209
ReadList ==
    /\ pc = "read"
    /\ lines' = read_lines_utf8bom(listFile)
    /\ last_non_empty' = last_non_empty_of(lines')
    /\ IF is_done(last_non_empty') THEN Exit(0)
       ELSE pc' = "parse" /\ exitcode' = exitcode
    /\ UNCHANGED <<listFile, manifest, outdir, now, env, run, items, threads,
                   cpu_count, arg_threads, task, collected, results, marked,
                   prev, written, fn>>

\* a variant that goes on to the pool when no item was parsed
Parse_goes_on_when_empty ==
    /\ pc = "parse"
    /\ items' = parse_items(lines)
    /\ pc' = "size" /\ exitcode' = exitcode
    /\ UNCHANGED <<listFile, manifest, outdir, now, env, run, lines,
                   last_non_empty, threads, cpu_count, arg_threads, task,
                   collected, results, marked, prev, written, fn>>

\* lines 211-228
Parse ==
    /\ pc = "parse"
    /\ items' = parse_items(lines)
    /\ IF items' = <<>> THEN Exit(0)
       ELSE pc' = "size" /\ exitcode' = exitcode
    /\ UNCHANGED <<listFile, manifest, outdir, now, env, run, lines,
                   last_non_empty, threads, cpu_count, arg_threads, task,
                   collected, results, marked, prev, written, fn>>

\* lines 230-234
SizePool ==
    /\ pc = "size"
    /\ \E c \in env.cpus :
          /\ cpu_count' = c
          /\ threads' = thread_count(Len(items), c, arg_threads)
    /\ pc' = "submit"
    /\ UNCHANGED <<listFile, manifest, outdir, now, env, run, exitcode, lines,
                   last_non_empty, items, arg_threads, task, collected,
                   results, marked, prev, written, fn>>

\* lines 237-239
Submit ==
    /\ pc = "submit"
    /\ results' = <<>>
    /\ task' = [t \in 1..Len(items) |-> NewFuture(items[t])]
    /\ collected' = {}
    /\ pc' = "collect"
    /\ UNCHANGED <<listFile, manifest, outdir, now, env, run, exitcode, lines,
                   last_non_empty, items, threads, cpu_count, arg_threads,
                   marked, prev, written, fn>>

\* lines 240-247: as_completed yields a finished future; fut.result() returns
\* the task's result or re-raises what the task raised
Collect ==
    /\ pc = "collect"
    /\ \E t \in DOMAIN task :
          /\ Finished(t)
          /\ t \notin collected
          /\ collected' = collected \cup {t}
          /\ IF task[t].pc = "raised"
             THEN pc' = "unwind" /\ results' = results
             ELSE pc' = pc /\ results' = Append(results, task[t].result)
    /\ UNCHANGED <<listFile, manifest, outdir, now, env, run, exitcode, lines,
                   last_non_empty, items, threads, cpu_count, arg_threads,
                   task, marked, prev, written, fn>>

\* line 238: leaving the with block normally, every future collected
PoolExit ==
    /\ pc = "collect"
    /\ collected = DOMAIN task
    /\ pc' = "manifest"
    /\ UNCHANGED <<listFile, manifest, outdir, now, env, run, exitcode, lines,
                   last_non_empty, items, threads, cpu_count, arg_threads,
                   task, collected, results, marked, prev, written, fn>>

\* line 238: leaving the with block by an exception: shutdown(wait=True)
\* waits for every future, then the exception leaves main
Unwind ==
    /\ pc = "unwind"
    /\ \A t \in DOMAIN task : Finished(t)
    /\ pc' = "raised"
    /\ UNCHANGED <<listFile, manifest, outdir, now, env, run, exitcode, lines,
                   last_non_empty, items, threads, cpu_count, arg_threads,
                   task, collected, results, marked, prev, written, fn>>

\* lines 249-252
WriteManifest ==
    /\ pc = "manifest"
    /\ manifest' = write_lines_utf8bom(out_lines(results))
    /\ written' = Append(written, URLLIST_NAME)
    /\ pc' = "mark"
    /\ UNCHANGED <<listFile, outdir, now, env, run, exitcode, lines,
                   last_non_empty, items, threads, cpu_count, arg_threads,
                   task, collected, results, marked, prev, fn>>

\* lines 254-263: append the sentinel; if that raises, rewrite the file; if
\* that raises too, go on
AppendDone ==
    /\ pc = "mark"
    /\ IF ~ is_done(last_non_empty)
       THEN \E how \in env.append :
               /\ marked' = how
               /\ written' = IF how = "fail" THEN written
                             ELSE Append(written, LIST_NAME)
               /\ listFile' =
                   CASE how = "ok" -> append_line_utf8bom(listFile, DONE)
                     [] how = "rewrite" ->
                            write_lines_utf8bom(Append(lines, DONE))
                     [] OTHER -> listFile
       ELSE listFile' = listFile /\ marked' = marked /\ written' = written
    /\ pc' = "report"
    /\ UNCHANGED <<manifest, outdir, now, env, run, exitcode, lines,
                   last_non_empty, items, threads, cpu_count, arg_threads,
                   task, collected, results, prev, fn>>

\* lines 265-269
Report ==
    /\ pc = "report"
    /\ Exit(0)
    /\ UNCHANGED <<listFile, manifest, outdir, now, env, run, lines,
                   last_non_empty, items, threads, cpu_count, arg_threads,
                   task, collected, results, marked, prev, written, fn>>

NoRun == [exit |-> NoExit, dispatched |-> FALSE, marked |-> "no"]

\* line 272: after a run that returned, the program is started again on the
\* files that run left
Rerun ==
    /\ pc = "exited"
    /\ run < MaxRuns
    /\ run' = run + 1
    /\ prev' = [exit |-> exitcode, dispatched |-> task # <<>>,
                marked |-> marked]
    /\ pc' = "start"
    /\ exitcode' = NoExit
    /\ lines' = <<>>
    /\ last_non_empty' = <<>>
    /\ items' = <<>>
    /\ threads' = 0
    /\ cpu_count' = 0
    /\ arg_threads' = 0
    /\ task' = <<>>
    /\ collected' = {}
    /\ results' = <<>>
    /\ marked' = "no"
    /\ written' = <<>>
    /\ UNCHANGED <<listFile, manifest, outdir, now, env, fn>>

-----------------------------------------------------------------------------
(* Specifications *)

InitMain ==
    /\ manifest = StaleManifest
    /\ now = 1
    /\ run = 1
    /\ pc = "start"
    /\ exitcode = NoExit
    /\ lines = <<>>
    /\ last_non_empty = <<>>
    /\ items = <<>>
    /\ threads = 0
    /\ cpu_count = 0
    /\ arg_threads = 0
    /\ task = <<>>
    /\ collected = {}
    /\ results = <<>>
    /\ marked = "no"
    /\ prev = NoRun
    /\ written = <<>>

Init ==
    /\ listFile \in InitTexts \cup {Missing}
    /\ outdir \in InitOutdirs
    /\ env \in {RunEnv, NoToolsEnv, MarkEnv}
    /\ InitMain
    /\ fn = <<>>

Next ==
    \/ CheckList
    \/ EnsureTools
    \/ ReadList
    \/ Parse
    \/ SizePool
    \/ Submit
    \/ \E t \in DOMAIN task : Start(t)
    \/ \E t \in DOMAIN task : Deliver(t)
    \/ \E t \in DOMAIN task : Return(t)
    \/ Collect
    \/ PoolExit
    \/ Unwind
    \/ WriteManifest
    \/ AppendDone
    \/ Report
    \/ Rerun

Spec == Init /\ [][Next]_vars

\* Every worker thread keeps running and every external tool ends, so a task
\* that can take a step takes it; main itself keeps running.
FairSpec ==
    /\ Spec
    /\ \A t \in 1..MaxLines :
          WF_vars(t \in DOMAIN task /\ (Start(t) \/ Deliver(t) \/ Return(t)))
    /\ WF_vars(Collect \/ PoolExit \/ Unwind)

\* The pool size as a function of its inputs (lines 231-233)
ThreadRequests == (0 - MaxRequest)..MaxRequest

InitThreads ==
    /\ listFile = Missing
    /\ outdir = {}
    /\ env = RunEnv
    /\ InitMain
    /\ fn \in [n : 1..MaxCount, cpus : 0..MaxCpu, requested : ThreadRequests,
               threads : {0}, applied : {FALSE}]

ApplyThreadCount ==
    /\ ~ fn.applied
    /\ fn' = [fn EXCEPT !.threads = thread_count(fn.n, fn.cpus, fn.requested),
                        !.applied = TRUE]
    /\ UNCHANGED mainvars

NextThreads == ApplyThreadCount

SpecThreads == InitThreads /\ [][NextThreads]_vars

\* The parser as a function of the lines of the list (lines 212-224)
ParsePool ==
    { <<>>,                             \* blank
      <<" ">>,                          \* blank: whitespace only
      <<"d", "o", "n", "e">>,           \* the sentinel
      <<" ", "D", "O", "N", "E", "\t">>, \* the sentinel, to be trimmed and lowered
      <<"d", "o", "n", "e", " ", "x">>, \* well-formed: the reference is "done"
      <<"u", " ", "a", ".">>,           \* well-formed
      <<" ", "w", "\t", " ", "c", " ", "d", " ">>, \* well-formed, more whitespace
      <<"x">>,                          \* malformed: one field
      <<"y", " ">> }                    \* malformed: one field and whitespace

InitParse ==
    /\ listFile = Missing
    /\ outdir = {}
    /\ env = RunEnv
    /\ InitMain
    /\ fn \in [lines : UNION {[1..k -> ParsePool] : k \in 0..MaxParseLines},
               items : {<<>>}, applied : {FALSE}]

ApplyParse ==
    /\ ~ fn.applied
    /\ fn' = [fn EXCEPT !.items = parse_items(fn.lines), !.applied = TRUE]
    /\ UNCHANGED mainvars

NextParse == ApplyParse

SpecParse == InitParse /\ [][NextParse]_vars

\* The sanitizer as a function of the display name (lines 59-64)
NameChars == FORBIDDEN \cup {"a", " ", "\t", "."}

InitSanitize ==
    /\ listFile = Missing
    /\ outdir = {}
    /\ env = RunEnv
    /\ InitMain
    /\ fn \in [name : UNION {[1..k -> NameChars] : k \in 0..MaxNameLen},
               result : {<<>>}, applied : {FALSE}]

ApplySanitize ==
    /\ ~ fn.applied
    /\ fn' = [fn EXCEPT !.result = sanitize_name(fn.name), !.applied = TRUE]
    /\ UNCHANGED mainvars

NextSanitize == ApplySanitize

SpecSanitize == InitSanitize /\ [][NextSanitize]_vars

-----------------------------------------------------------------------------
(* Properties *)

\* a run that dispatched tasks is over: main returned, or an exception left it
RunOver == pc \in {"exited", "raised"} /\ task # <<>>

SucceededTasks ==
    {t \in DOMAIN task : task[t].pc = "done" /\ task[t].result.success}

Range(f) == {f[i] : i \in DOMAIN f}

\* C1: after any run of main that dispatched tasks, the manifest holds exactly
\* one line per task whose result has success=true and nothing else; what it
\* held before the run is gone.
C1_ManifestIsThisRunsSuccesses ==
    RunOver =>
       LET ml == splitlines(manifest)
       IN  /\ Len(ml) = Cardinality(SucceededTasks)
           /\ \A t \in SucceededTasks : manifest_line(task[t].result) \in Range(ml)
           /\ ml = out_lines(results)
           /\ manifest # StaleManifest

\* C2 as stated: for every list whose last non-blank line is not the sentinel,
\* after a run that exits 0 the list file's last non-blank line is the
\* sentinel, and a second run parses no item and dispatches no task.
C2_Original ==
    /\ (pc = "exited" /\ exitcode = 0 /\ ~ is_done(last_non_empty))
          => is_done(last_non_empty_of(read_lines_utf8bom(listFile)))
    /\ (run > 1 /\ prev.exit = 0) => (items = <<>> /\ task = <<>>)

\* C2 as amended: for every list whose last non-blank line is not the sentinel
\* and that yields at least one item, after a run that exits 0 and whose
\* marking of the list (the append, or the rewrite after a failed append)
\* worked, the list file's last non-blank line is the sentinel, and a second
\* run parses no item and dispatches no task.
C2_MarkedListIsNotRunAgain ==
    /\ (/\ pc = "exited" /\ exitcode = 0
        /\ ~ is_done(last_non_empty)
        /\ items # <<>>
        /\ marked \in {"ok", "rewrite"})
          => is_done(last_non_empty_of(read_lines_utf8bom(listFile)))
    /\ (run > 1 /\ prev.exit = 0 /\ prev.dispatched
                /\ prev.marked \in {"ok", "rewrite"})
          => (/\ items = <<>> /\ task = <<>>
              /\ pc \in {"start", "tools", "read", "exited", "raised"})

\* a second run has returned 0 after a first run that dispatched tasks,
\* returned 0 and marked the list
C2_Witness ==
    /\ run = 2 /\ pc = "exited" /\ exitcode = 0
    /\ prev.exit = 0 /\ prev.dispatched /\ prev.marked \in {"ok", "rewrite"}

\* C3: process_item never raises past its boundary: every failure of a step
\* becomes a result with success=false, and main's collection is not aborted.
C3_TaskNeverRaises ==
    /\ \A t \in DOMAIN task : task[t].pc # "raised"
    /\ pc # "unwind"

\* C4: when the run is over every task has run to completion and exactly one
\* result per item has been collected: successes + failures = N.
C4_OneResultPerItem ==
    RunOver =>
       LET ok_count == Cardinality({i \in DOMAIN results : results[i].success})
           fail_count == Cardinality({i \in DOMAIN results : ~ results[i].success})
       IN  /\ \A t \in DOMAIN task : Finished(t)
           /\ collected = DOMAIN task
           /\ ok_count + fail_count = Len(items)

Stamps(name) == {name \o <<"-", ToString(ts)>> : ts \in 1..MaxClock}

\* C6 as stated: the tasks of a run write pairwise distinct destination paths,
\* and no task writes a path at which a file already is.
C6_Original ==
    /\ \A t, u \in DOMAIN task :
          (t # u /\ task[t].wrote /\ task[u].wrote)
             => task[t].dest_base # task[u].dest_base
    /\ \A t \in DOMAIN task : ~ task[t].dest_taken

\* C6 as amended: a task writes <outdir>/<S>.mp3, or <outdir>/<S>-<timestamp>.mp3
\* when it found <outdir>/<S>.mp3 taken, S being its sanitized name; so it does
\* not write over the file it found there, and two tasks write distinct paths
\* when neither's S is the other's S or the other's S with a timestamp.
\* (Tasks with the same S may write the same path.)
C6_DistinctNamesDistinctPaths ==
    /\ \A t \in DOMAIN task :
          task[t].wrote =>
             /\ task[t].dest_base \in
                   {dest_path(n) : n \in {task[t].naive} \cup Stamps(task[t].naive)}
             /\ task[t].existed => task[t].dest_base # dest_path(task[t].naive)
    /\ \A t, u \in DOMAIN task :
          (/\ t # u /\ task[t].wrote /\ task[u].wrote
           /\ task[t].naive \notin {task[u].naive} \cup Stamps(task[u].naive)
           /\ task[u].naive \notin Stamps(task[t].naive))
             => task[t].dest_base # task[u].dest_base

\* two tasks with different names have written, one of them beside the file
\* it found at its first destination
C6_Witness ==
    \E t, u \in DOMAIN task :
       /\ t # u /\ task[t].wrote /\ task[u].wrote
       /\ task[t].naive # task[u].naive
       /\ task[t].existed

\* C7 as stated: if line 150 finds <outdir>/<S>.mp3 taken, the path the task
\* writes differs from it and from the path of every file in the output
\* directory at the time of the write, and the result reports the new name.
C7_Original ==
    \A t \in DOMAIN task :
       task[t].existed =>
          /\ task[t].dest_base # dest_path(task[t].naive)
          /\ ~ task[t].dest_taken
          /\ (task[t].pc = "done" /\ task[t].result.success) =>
                /\ task[t].result.file = task[t].safe_name
                /\ task[t].result.file # task[t].naive

\* C7 as amended: if line 150 finds <outdir>/<S>.mp3 taken, the path the task
\* writes is <outdir>/<S>-<timestamp>.mp3, which differs from it, and the name
\* in the result, in its path and in the delivery URL is <S>-<timestamp>.
\* (The new path is not checked: a file may be there.)
C7_TakenNameIsStamped ==
    \A t \in DOMAIN task :
       task[t].existed =>
          /\ task[t].dest_base # dest_path(task[t].naive)
          /\ task[t].dest_base \in {dest_path(n) : n \in Stamps(task[t].naive)}
          /\ (task[t].pc = "done" /\ task[t].result.success) =>
                /\ task[t].result.file \in Stamps(task[t].naive)
                /\ task[t].result.dest = dest_path(task[t].result.file)
                /\ task[t].result.dest = task[t].dest_base
                /\ task[t].result.cdn =
                      CDN_PREFIX \o task[t].result.file \o MP3EXT

\* a task that found its first destination taken has succeeded
C7_Witness ==
    \E t \in DOMAIN task :
       /\ task[t].existed
       /\ task[t].pc = "done"
       /\ task[t].result.success

\* C8: for every fetched file, process_item moves it without calling the
\* transcoder if and only if it has the extension .mp3, the codec is exactly
\* mp3 and 192000 <= bit rate <= 192500; otherwise it calls the transcoder
\* exactly once.
C8_PassThroughIffQualified ==
    \A t \in DOMAIN task :
       task[t].pc \in {"return", "except"} =>
          LET q == /\ endswith(task[t].src, MP3EXT)
                   /\ task[t].codec = <<"mp3">>
                   /\ 192000 <= task[t].bps /\ task[t].bps <= 192500
          IN  /\ task[t].moved <=> q
              /\ task[t].moved => task[t].ffmpeg_calls = 0
              /\ ~ q => task[t].ffmpeg_calls = 1

\* the bound the claim gives: min(N, min(cpu*3, 24)) for a request <= 0, the
\* request otherwise
WorkerBound ==
    LET cpu == IF cpu_count = 0 THEN 4 ELSE cpu_count
        cap == IF cpu * 3 <= 24 THEN cpu * 3 ELSE 24
    IN  IF arg_threads <= 0
        THEN (IF Len(items) <= cap THEN Len(items) ELSE cap)
        ELSE arg_threads

\* C9: at no time do more tasks run than the worker bound, and every
\* submitted task is run.
C9_BoundedPoolRunsAll ==
    /\ [](PoolAlive =>
            Cardinality({t \in DOMAIN task : Running(t)}) <= WorkerBound)
    /\ \A t \in 1..MaxLines :
          (t \in DOMAIN task /\ task[t].pc = "queued")
             ~> (t \in DOMAIN task /\ Finished(t))

\* every worker is busy and a task waits
C9_Witness ==
    /\ PoolAlive
    /\ Cardinality({t \in DOMAIN task : Running(t)}) = WorkerBound
    /\ \E t \in DOMAIN task : task[t].pc = "queued"

\* C10: the worker count is min(n, min(cpu*3, 24)) for a request <= 0 and the
\* request otherwise; with 4 cpus, 1, 10 and 100 items give 1, 10 and 12; it is
\* at least 1.
C10_WorkerCount ==
    fn.applied =>
       LET cpu == IF fn.cpus = 0 THEN 4 ELSE fn.cpus
       IN  /\ fn.requested > 0 => fn.threads = fn.requested
           /\ fn.requested <= 0 =>
                 /\ fn.threads <= fn.n
                 /\ fn.threads <= cpu * 3
                 /\ fn.threads <= 24
                 /\ fn.threads \in {fn.n, cpu * 3, 24}
           /\ (fn.requested <= 0 /\ fn.cpus = 4 /\ fn.n = 1) => fn.threads = 1
           /\ (fn.requested <= 0 /\ fn.cpus = 4 /\ fn.n = 10) => fn.threads = 10
           /\ (fn.requested <= 0 /\ fn.cpus = 4 /\ fn.n = 100) => fn.threads = 12
           /\ fn.threads >= 1

\* automatic sizing was applied to 100 items on 4 cpus
C10_Witness ==
    /\ fn.applied
    /\ fn.requested = 0 /\ fn.cpus = 4 /\ fn.n = 100
    /\ fn.threads = 12

\* C11: in a run that dispatched tasks the manifest and the list file are each
\* written exactly once, the manifest first, and only when every task has
\* finished and its result has been collected; no task runs during a write.
C11_WritesOnceAfterAllTasks ==
    /\ RunOver => written = <<URLLIST_NAME, LIST_NAME>>
    /\ written # <<>> =>
          /\ \A t \in DOMAIN task : task[t].pc = "done"
          /\ collected = DOMAIN task
          /\ Len(results) = Len(items)

\* the list file exists and its last non-blank line, trimmed and compared
\* case-insensitively, is the sentinel
SentinelLast ==
    /\ listFile # Missing
    /\ LET l == last_non_empty_of(splitlines(listFile))
       IN  l # <<>> /\ lower(strip(l)) = DONE

\* C12 as stated: if the list's last non-blank line is the sentinel, main
\* returns 0 (no exception leaves it), with no item parsed and no task
\* dispatched.
C12_Original ==
    (SentinelLast /\ task = <<>>) =>
       /\ pc # "raised"
       /\ pc = "exited" => (exitcode = 0 /\ items = <<>>)

\* C12 as amended: while the list's last non-blank line is the sentinel, no
\* step of main changes the manifest, the list file or the output directory,
\* parses an item or dispatches a task; and once the required tools have been
\* found main returns 0 right after reading the list.
C12_SentinelListIsNoOp ==
    [][SentinelLast =>
          /\ listFile' = listFile
          /\ manifest' = manifest
          /\ outdir' = outdir
          /\ items' \in {items, <<>>}
          /\ task' \in {task, <<>>}
          /\ pc = "tools" => pc' \in {"read", "raised"}
          /\ pc = "read" =>
                (pc' = "exited" /\ exitcode' = 0 /\ items' = <<>> /\ task' = <<>>)
      ]_vars

\* the first run has returned 0 on a list of a well-formed line and a sentinel
C12_Witness ==
    /\ run = 1 /\ pc = "exited" /\ exitcode = 0
    /\ Len(lines) = 2
    /\ Len(split1(lines[1])) = 2
    /\ is_done(last_non_empty)
    /\ items = <<>> /\ task = <<>>
    /\ manifest = StaleManifest

\* a line that, trimmed and compared case-insensitively, is the sentinel
IsSentinelLine(line) ==
    \E a, b \in 1..Len(line) :
       /\ b = a + 3
       /\ \A i \in 1..(a - 1) : line[i] \in Whitespace
       /\ \A i \in (b + 1)..Len(line) : line[i] \in Whitespace
       /\ line[a] \in {"d", "D"} /\ line[a + 1] \in {"o", "O"}
       /\ line[a + 2] \in {"n", "N"} /\ line[b] \in {"e", "E"}

\* the index of the first sentinel line of ls, or Len(ls) + 1
FirstSentinel(ls) ==
    CHOOSE k \in 1..(Len(ls) + 1) :
       /\ k <= Len(ls) => IsSentinelLine(ls[k])
       /\ \A j \in 1..(k - 1) : ~ IsSentinelLine(ls[j])

\* item is line split at its first run of whitespace: leading whitespace, the
\* reference, whitespace, and the rest of the line
SplitsInto(line, item) ==
    \E p \in 0..Len(line), q, r \in 1..Len(line) :
       /\ p < q /\ q + 1 < r
       /\ \A i \in 1..p : line[i] \in Whitespace
       /\ \A i \in (p + 1)..q : line[i] \notin Whitespace
       /\ \A i \in (q + 1)..(r - 1) : line[i] \in Whitespace
       /\ line[r] \notin Whitespace
       /\ item.url = SubSeq(line, p + 1, q)
       /\ item.filename = SubSeq(line, r, Len(line))

\* a line with two whitespace-separated fields
WellFormed(line) ==
    \E i, j, k \in 1..Len(line) :
       /\ i < j /\ j < k
       /\ line[i] \notin Whitespace /\ line[j] \in Whitespace
       /\ line[k] \notin Whitespace

\* the indices of the well-formed lines of ls before its first sentinel
WellFormedBefore(ls) ==
    {i \in 1..(FirstSentinel(ls) - 1) : WellFormed(ls[i])}

\* C13: parsing stops at the first sentinel line: no item comes from a line
\* after it, even a well-formed one, and every well-formed line before it gives
\* an item, in the order of the lines.
C13_StopsAtFirstSentinel ==
    fn.applied =>
       LET ls == fn.lines
           k == FirstSentinel(ls)
           W == WellFormedBefore(ls)
           Rank(i) == Cardinality({j \in W : j <= i})
       IN  /\ \A n \in DOMAIN fn.items :
                 \E i \in 1..(k - 1) : SplitsInto(ls[i], fn.items[n])
           /\ Len(fn.items) = Cardinality(W)
           /\ \A i \in W : SplitsInto(ls[i], fn.items[Rank(i)])

\* a sentinel between two well-formed lines: one item, from the first line
C13_Witness ==
    /\ fn.applied
    /\ Len(fn.lines) = 3
    /\ WellFormed(fn.lines[1])
    /\ IsSentinelLine(fn.lines[2])
    /\ WellFormed(fn.lines[3])
    /\ Len(fn.items) = 1

\* the item a well-formed line stands for
ItemOf(line) ==
    CHOOSE it \in {[url |-> SubSeq(line, a, b),
                    filename |-> SubSeq(line, c, Len(line))] :
                      a, b, c \in 1..Len(line)} : SplitsInto(line, it)

\* a non-blank line that is neither the sentinel nor well-formed
Malformed(line) ==
    /\ \E i \in 1..Len(line) : line[i] \notin Whitespace
    /\ ~ IsSentinelLine(line)
    /\ ~ WellFormed(line)

\* C14: a non-blank line without two whitespace-separated fields gives no item
\* and does not end the parsing: the items are exactly the well-formed lines
\* before the first sentinel, in order, each split at its first run of
\* whitespace into (reference, rest of the line).
C14_MalformedLinesDropped ==
    fn.applied =>
       LET ls == fn.lines
           W == WellFormedBefore(ls)
           Rank(i) == Cardinality({j \in W : j <= i})
           Nth(n) == CHOOSE i \in W : Rank(i) = n
       IN  /\ fn.items = [n \in 1..Cardinality(W) |-> ItemOf(ls[Nth(n)])]
           /\ \A n \in DOMAIN fn.items :
                 /\ fn.items[n].url # <<>>
                 /\ \A i \in DOMAIN fn.items[n].url :
                       fn.items[n].url[i] \notin Whitespace
                 /\ fn.items[n].filename # <<>>
                 /\ fn.items[n].filename[1] \notin Whitespace
           /\ \A i \in DOMAIN ls :
                 Malformed(ls[i]) =>
                    \A n \in DOMAIN fn.items : ~ SplitsInto(ls[i], fn.items[n])

\* a malformed line between two well-formed lines: two items
C14_Witness ==
    /\ fn.applied
    /\ Len(fn.lines) = 3
    /\ WellFormed(fn.lines[1])
    /\ Malformed(fn.lines[2])
    /\ WellFormed(fn.lines[3])
    /\ Len(fn.items) = 2
    /\ fn.items[2] = ItemOf(fn.lines[3])

\* a name of periods only, with whitespace around them or none (the empty and
\* the blank name included)
OnlyPeriodsTrimmed(name) ==
    /\ \A i \in DOMAIN name : name[i] \in Whitespace \cup {"."}
    /\ \A i, j, k \in DOMAIN name :
          (i < j /\ j < k /\ name[i] = "." /\ name[k] = ".") => name[j] = "."

\* C15 as stated: sanitize_name returns the fallback for every blank name and
\* for every name of forbidden characters, whitespace and periods only.
C15_Original ==
    fn.applied =>
       ((\A i \in DOMAIN fn.name :
            fn.name[i] \in FORBIDDEN \cup Whitespace \cup {"."})
          => fn.result = UNTITLED)

\* C15 as amended: sanitize_name returns the fallback exactly for the names
\* that are blank or, once trimmed, consist of periods only; a forbidden
\* character becomes a placeholder, which the trimming keeps, so a name that
\* holds one does not get the fallback.
C15_FallbackForBlankOrPeriods ==
    fn.applied =>
       /\ (\A i \in DOMAIN fn.name : fn.name[i] \in Whitespace)
             => fn.result = UNTITLED
       /\ OnlyPeriodsTrimmed(fn.name) <=> fn.result = UNTITLED
       /\ (\E i \in DOMAIN fn.name : fn.name[i] \in FORBIDDEN)
             => (fn.result # UNTITLED /\ \E i \in DOMAIN fn.result : fn.result[i] = "_")

\* a name of a period between whitespace got the fallback
C15_Witness ==
    /\ fn.applied
    /\ Len(fn.name) = 3
    /\ fn.name[1] \in Whitespace /\ fn.name[2] = "." /\ fn.name[3] \in Whitespace
    /\ fn.result = UNTITLED

\* C16: the result of sanitize_name holds no forbidden character, is not
\* empty, has no leading or trailing whitespace and no trailing period.
C16_SanitizedNameIsClean ==
    fn.applied =>
       /\ \A i \in DOMAIN fn.result : fn.result[i] \notin FORBIDDEN
       /\ \A i \in DOMAIN fn.name :
             fn.name[i] \in FORBIDDEN =>
                (\E j \in DOMAIN fn.result : fn.result[j] = "_")
       /\ fn.result # <<>>
       /\ fn.result[1] \notin Whitespace
       /\ fn.result[Len(fn.result)] \notin Whitespace
       /\ fn.result[Len(fn.result)] # "."

ToolMissing == FALSE \in env.tools

\* a run of main is over without a task, a parsed item or a written file
AbortedClean ==
    /\ items = <<>> /\ task = <<>> /\ results = <<>>
    /\ written = <<>>
    /\ manifest = StaleManifest

\* C17 as stated: if the list file is missing main returns 1, and if a
\* required tool is missing main raises; in both cases no task is dispatched
\* and neither the manifest nor the list file is written.
C17_Original ==
    /\ (listFile = Missing /\ pc \notin {"start"})
          => (pc = "exited" /\ exitcode = 1 /\ AbortedClean)
    /\ (ToolMissing /\ pc \notin {"start", "tools"})
          => (pc = "raised" /\ AbortedClean)

\* C17 as amended: if the list file is missing main returns 1, whether or not
\* the tools are there; if the list file exists and a required tool is
\* missing main raises; in both cases no item is parsed, no task is dispatched
\* and neither the manifest nor the list file is written.
C17_FatalConditionsAbortEarly ==
    /\ (listFile = Missing /\ pc \notin {"start"})
          => (pc = "exited" /\ exitcode = 1 /\ AbortedClean)
    /\ (listFile # Missing /\ ToolMissing /\ pc \notin {"start", "tools"})
          => (pc = "raised" /\ exitcode = NoExit /\ AbortedClean)

\* main has raised on a list with a well-formed line, a tool being missing
C17_Witness ==
    /\ ToolMissing
    /\ pc = "raised"
    /\ listFile # Missing
    /\ parse_items(splitlines(listFile)) # <<>>
    /\ task = <<>>

\* C18: every result process_item returns is consistent: a success has a
\* delivery URL and an output path, the path is <outdir>/<finalName>.mp3 and
\* the URL ends in the same finalName (the name after any timestamp suffix); a
\* failure has neither, and a message that is not empty.
C18_ResultIsConsistent ==
    /\ \A t \in DOMAIN task :
          task[t].pc = "done" =>
             LET r == task[t].result
             IN  /\ r.success =>
                       /\ r.cdn # <<>> /\ r.dest # <<>>
                       /\ r.dest = <<OUTDIR, "/">> \o r.file \o <<".", "mp3">>
                       /\ r.cdn = CDN_PREFIX \o r.file \o <<".", "mp3">>
                       /\ r.file = IF task[t].existed
                                   THEN task[t].safe_name ELSE task[t].naive
                       /\ task[t].existed => r.file \in Stamps(task[t].naive)
                       /\ r.message = <<"OK">>
                 /\ ~ r.success =>
                       /\ r.cdn = <<>> /\ r.dest = <<>>
                       /\ r.message # <<>>
    /\ \A i \in DOMAIN results :
          \E t \in collected : results[i] = task[t].result

\* of two returned tasks one succeeded under a timestamped name and the other
\* failed in the transcoder
C18_Witness ==
    \E t, u \in DOMAIN task :
       /\ task[t].pc = "done" /\ task[t].result.success /\ task[t].existed
       /\ task[u].pc = "done" /\ ~ task[u].result.success
       /\ task[u].result.message = <<"ffmpeg failed">>

\* C19: the marking does not depend on the outcomes of the tasks: when a run
\* that dispatched a task is over, the sentinel has been appended to the list
\* file, whether the tasks succeeded or failed, and a later run on that list
\* runs no item again.
C19_MarkedWhateverTheOutcome ==
    /\ RunOver => (SentinelLast /\ written # <<>> /\ written[Len(written)] = LIST_NAME)
    /\ (run > 1 /\ prev.dispatched) => (items = <<>> /\ task = <<>>)

\* the list file exists, does not end in the sentinel, and has no well-formed
\* line before its first sentinel
NothingToParse ==
    /\ listFile # Missing
    /\ ~ SentinelLast
    /\ WellFormedBefore(splitlines(listFile)) = {}

BeforeParsing == pc \in {"start", "tools", "read", "parse"}

\* C20 as stated: when the list does not end in the sentinel and yields no
\* item, main returns 0 without dispatching a task, without writing the
\* manifest and without appending the sentinel.
C20_Original ==
    (NothingToParse /\ ~ BeforeParsing) =>
       (pc = "exited" /\ exitcode = 0 /\ AbortedClean)

\* C20 as amended: the same, for a run in which the required tools are found.
C20_NothingToParseIsNoOp ==
    (NothingToParse /\ ~ ToolMissing /\ ~ BeforeParsing) =>
       /\ pc = "exited" /\ exitcode = 0
       /\ AbortedClean
       /\ threads = 0 /\ collected = {}
       /\ marked = "no"

\* main has returned 0 on a list of a sentinel followed by a well-formed line
C20_Witness ==
    /\ NothingToParse /\ ~ ToolMissing
    /\ pc = "exited" /\ exitcode = 0
    /\ Len(lines) = 2
    /\ IsSentinelLine(lines[1])
    /\ WellFormed(lines[2])
    /\ items = <<>>

====
